---- MODULE Spec2Model ----
(***************************************************************************)
(* Model of homework/chapter17/rbac_controller.py: a FastAPI RBAC demo.   *)
(* State: the module-level user table MOCK_USERS_DB (whose records carry  *)
(* a mutable `permissions` field), the protected requests in flight       *)
(* (dependency get_current_user already resolved, rbac_required wrapper   *)
(* not yet run), and the response of the most recently completed call.    *)
(***************************************************************************)
EXTENDS Integers, Sequences, FiniteSets, TLC

\* Number of protected requests that may be in flight at the same time.
NumSlots == 2

Slots == 1..NumSlots

Range(s) == {s[i] : i \in DOMAIN s}

\* Python `x in some_list`
Contains(s, x) == \E i \in DOMAIN s : s[i] = x

\* Python `d.get(k, default)`
DictGet(d, k, default) == IF k \in DOMAIN d THEN d[k] ELSE default

\* class Permission(str, Enum): member name -> value
Permission ==
  [READ_USERS |-> "read_users", WRITE_USERS |-> "write_users",
   DELETE_USERS |-> "delete_users", READ_PRODUCTS |-> "read_products",
   WRITE_PRODUCTS |-> "write_products", ACCESS_DEV_TOOLS |-> "access_dev_tools",
   VIEW_LOGS |-> "view_logs"]

\* class Role(str, Enum): member name -> value
Role ==
  [ADMIN |-> "admin", USER |-> "user", GUEST |-> "guest",
   DEVELOPER |-> "developer"]

ROLE_PERMISSIONS_MAP ==
  [ADMIN |-> <<"READ_USERS", "WRITE_USERS", "DELETE_USERS", "READ_PRODUCTS",
               "WRITE_PRODUCTS", "ACCESS_DEV_TOOLS", "VIEW_LOGS">>,
   USER |-> <<"READ_PRODUCTS", "WRITE_PRODUCTS">>,
   GUEST |-> <<"READ_PRODUCTS">>,
   DEVELOPER |-> <<"READ_USERS", "READ_PRODUCTS", "ACCESS_DEV_TOOLS",
                   "VIEW_LOGS">>]

\* class User(BaseModel): permissions defaults to []
User(username, password, role) ==
  [username |-> username, password |-> password, role |-> role,
   permissions |-> <<>>]

MOCK_USERS_DB ==
  [admin_user |-> User("admin_user", "admin_password", "ADMIN"),
   normal_user |-> User("normal_user", "user_password", "USER"),
   guest_user |-> User("guest_user", "guest_password", "GUEST"),
   developer_user |-> User("developer_user", "dev_password", "DEVELOPER")]

\* An Optional[List[...]] decorator argument: None, or a list.
Absent == [given |-> FALSE, items |-> <<>>]

Given(items) == [given |-> TRUE, items |-> items]

\* Python truthiness of an Optional[List]: None and [] are both falsy.
Truthy(opt) == opt.given /\ Len(opt.items) > 0

\* The (allowed_roles, required_permissions) pair handed to rbac_required.
Requirement(allowed_roles, required_permissions) ==
  [allowed_roles |-> allowed_roles,
   required_permissions |-> required_permissions]

\* Requirements the guard is exercised with: those of routes of the
\* application, and further combinations of the two decorator arguments.
Requirements ==
  { Requirement(Given(<<"ADMIN">>), Absent),
    Requirement(Given(<<"USER", "ADMIN">>), Absent),
    Requirement(Given(<<"ADMIN", "USER", "GUEST", "DEVELOPER">>), Absent),
    Requirement(Absent, Given(<<"WRITE_PRODUCTS">>)),
    Requirement(Absent, Absent),
    Requirement(Given(<<>>), Given(<<>>)),
    Requirement(Absent, Given(<<"READ_USERS", "WRITE_PRODUCTS">>)),
    Requirement(Given(<<"ADMIN", "DEVELOPER">>),
                Given(<<"READ_USERS", "WRITE_PRODUCTS">>)),
    Requirement(Given(<<"GUEST">>), Given(<<"READ_PRODUCTS">>)) }

\* Inputs a client may send.
UsernameInputs ==
  {"admin_user", "normal_user", "guest_user", "developer_user", "ghost_user"}

PasswordInputs == {"admin_password", "guest_password", "wrong_password"}

VARIABLES db, slots, last, issued

vars == <<db, slots, last, issued>>

\* raise HTTPException(status_code, detail, headers) / a 200 response
Response(status, text, values, headers) ==
  [status |-> status, text |-> text, values |-> values, headers |-> headers]

NoResponse == Response(0, "", <<>>, <<>>)

Idle == [pc |-> "idle", token |-> "", username |-> ""]

NoRequirement == Requirement(Absent, Absent)

\* Record of the most recently completed call.
NoCall ==
  [kind |-> "none", username |-> "", password |-> "", token |-> "",
   principal |-> "", req |-> NoRequirement, resp |-> NoResponse,
   ran |-> FALSE, tested |-> <<>>]


HTTP_200_OK == 200

HTTP_401_UNAUTHORIZED == 401

HTTP_403_FORBIDDEN == 403

\* ROLE_PERMISSIONS_MAP.get(user.role, [])
PermissionsOfRole(role) == DictGet(ROLE_PERMISSIONS_MAP, role, <<>>)

\* [role.value for role in allowed_roles]
RoleValues(roles) == [i \in DOMAIN roles |-> Role[roles[i]]]

\* [p.value for p in required_permissions]
PermissionValues(perms) == [i \in DOMAIN perms |-> Permission[perms[i]]]

\* authenticate_user accepting any password of a known user.
authenticate_user_any_password(username, password) ==
  IF username \notin DOMAIN db
  THEN [ok |-> FALSE, key |-> "", db |-> db]
  ELSE [ok |-> TRUE, key |-> username,
        db |-> [db EXCEPT ![username].permissions =
                            PermissionsOfRole(db[username].role)]]

\* authenticate_user filling the permissions before it checks the password.
authenticate_user_fill_first(username, password) ==
  IF username \notin DOMAIN db
  THEN [ok |-> FALSE, key |-> "", db |-> db]
  ELSE LET filled == [db EXCEPT ![username].permissions =
                                  PermissionsOfRole(db[username].role)]
       IN IF db[username].password # password
          THEN [ok |-> FALSE, key |-> "", db |-> filled]
          ELSE [ok |-> TRUE, key |-> username, db |-> filled]

\* authenticate_user looking the permissions up by username, not by role.
authenticate_user_fill_by_name(username, password) ==
  IF username \notin DOMAIN db \/ db[username].password # password
  THEN [ok |-> FALSE, key |-> "", db |-> db]
  ELSE [ok |-> TRUE, key |-> username,
        db |-> [db EXCEPT ![username].permissions =
                            PermissionsOfRole(db[username].username)]]

\* authenticate_user: the key of the user found (ok), or None (~ok), and the
\* user table as the call leaves it.
authenticate_user(username, password) ==
  IF username \notin DOMAIN db \/ db[username].password # password
  THEN [ok |-> FALSE, key |-> "", db |-> db]
  ELSE [ok |-> TRUE, key |-> username,
        db |-> [db EXCEPT ![username].permissions =
                            PermissionsOfRole(db[username].role)]]

\* create_access_token encoding the role instead of the identity.
create_access_token_role(user) == Role[user.role]

create_access_token(user) == user.username

\* The 401 raised by login_for_access_token.
LoginFailure ==
  Response(HTTP_401_UNAUTHORIZED, "Incorrect username or password", <<>>,
           <<"WWW-Authenticate", "Bearer">>)

\* {"access_token": access_token, "token_type": "bearer"}
LoginSuccess(access_token) ==
  Response(HTTP_200_OK, "access_token", <<access_token, "bearer">>, <<>>)

\* POST /token
login_for_access_token(username, password) ==
  LET r == authenticate_user(username, password)
      call == [NoCall EXCEPT !.kind = "login", !.username = username,
                             !.password = password]
  IN /\ db' = r.db
     /\ IF ~r.ok
        THEN /\ last' = [call EXCEPT !.resp = LoginFailure]
             /\ UNCHANGED issued
        ELSE LET access_token == create_access_token(r.db[r.key])
             IN /\ last' = [call EXCEPT !.resp = LoginSuccess(access_token),
                                        !.token = access_token]
                /\ issued' = issued \cup {<<username, access_token>>}
     /\ UNCHANGED slots

\* The 401 raised by get_current_user.
InvalidToken ==
  Response(HTTP_401_UNAUTHORIZED, "Invalid authentication credentials", <<>>,
           <<"WWW-Authenticate", "Bearer">>)

\* get_current_user falling back to the guest record for an unknown token.
get_current_user_default(token) ==
  LET username == IF token \in DOMAIN db THEN token ELSE "guest_user"
  IN [ok |-> TRUE, key |-> username, exc |-> NoResponse,
      db |-> [db EXCEPT ![username].permissions =
                          PermissionsOfRole(db[username].role)]]

\* get_current_user raising 403 for an unknown token.
get_current_user_forbidden(token) ==
  LET username == token
  IN IF username \notin DOMAIN db
     THEN [ok |-> FALSE, key |-> "",
           exc |-> Response(HTTP_403_FORBIDDEN,
                            "Invalid authentication credentials", <<>>, <<>>),
           db |-> db]
     ELSE [ok |-> TRUE, key |-> username, exc |-> NoResponse,
           db |-> [db EXCEPT ![username].permissions =
                               PermissionsOfRole(db[username].role)]]

\* get_current_user relying on the login to have filled the permissions.
get_current_user_no_fill(token) ==
  LET username == token
  IN IF username \notin DOMAIN db
     THEN [ok |-> FALSE, key |-> "", exc |-> InvalidToken, db |-> db]
     ELSE [ok |-> TRUE, key |-> username, exc |-> NoResponse, db |-> db]

\* get_current_user: the key of the user the token names (ok), or the
\* exception raised, and the user table as the call leaves it.
get_current_user(token) ==
  LET username == token
  IN IF username \notin DOMAIN db
     THEN [ok |-> FALSE, key |-> "", exc |-> InvalidToken, db |-> db]
     ELSE [ok |-> TRUE, key |-> username, exc |-> NoResponse,
           db |-> [db EXCEPT ![username].permissions =
                               PermissionsOfRole(db[username].role)]]

\* Bearer tokens a client may present: any it was issued, or a string of its
\* own choosing.
TokenInputs == UsernameInputs \cup {p[2] : p \in issued}

\* A protected request arrives and FastAPI resolves the wrapper's dependency
\* current_user = Depends(get_current_user).
ResolveDependency(s, token) ==
  LET r == get_current_user(token)
  IN /\ slots[s].pc = "idle"
     /\ db' = r.db
     /\ IF ~r.ok
        THEN /\ last' = [NoCall EXCEPT !.kind = "request", !.token = token,
                                       !.resp = r.exc]
             /\ UNCHANGED slots
        ELSE /\ slots' = [slots EXCEPT ![s] = [pc |-> "guard", token |-> token,
                                               username |-> r.key]]
             /\ UNCHANGED last
     /\ UNCHANGED issued

\* return await func(*args, current_user=current_user, **kwargs)
func(current_user) ==
  Response(HTTP_200_OK, "Hello", <<current_user.username>>, <<>>)

RoleDenial(allowed_roles) ==
  [ran |-> FALSE,
   resp |-> Response(HTTP_403_FORBIDDEN, "Permission denied. Required roles: ",
                     RoleValues(allowed_roles.items), <<>>)]

PermissionDenial(required_permissions) ==
  [ran |-> FALSE,
   resp |-> Response(HTTP_403_FORBIDDEN,
                     "Permission denied. Required permissions: ",
                     PermissionValues(required_permissions.items), <<>>)]

\* all(p in current_user.permissions for p in required_permissions)
HasAll(current_user, required_permissions) ==
  \A i \in DOMAIN required_permissions.items :
    Contains(current_user.permissions, required_permissions.items[i])

\* wrapper skipping the permission check once the role check has passed.
wrapper_role_suffices(current_user, allowed_roles, required_permissions) ==
  IF Truthy(allowed_roles)
  THEN IF ~Contains(allowed_roles.items, current_user.role)
       THEN RoleDenial(allowed_roles)
       ELSE [ran |-> TRUE, resp |-> func(current_user)]
  ELSE IF Truthy(required_permissions)
          /\ ~HasAll(current_user, required_permissions)
  THEN PermissionDenial(required_permissions)
  ELSE [ran |-> TRUE, resp |-> func(current_user)]

\* wrapper whose permission denial reuses the role denial's detail.
wrapper_copied_detail(current_user, allowed_roles, required_permissions) ==
  IF Truthy(allowed_roles)
     /\ ~Contains(allowed_roles.items, current_user.role)
  THEN RoleDenial(allowed_roles)
  ELSE IF Truthy(required_permissions)
          /\ ~HasAll(current_user, required_permissions)
  THEN [ran |-> FALSE,
        resp |-> Response(HTTP_403_FORBIDDEN,
                          "Permission denied. Required roles: ",
                          RoleValues(allowed_roles.items), <<>>)]
  ELSE [ran |-> TRUE, resp |-> func(current_user)]

\* wrapper checking the permissions before the roles.
wrapper_permissions_first(current_user, allowed_roles, required_permissions) ==
  IF Truthy(required_permissions)
     /\ ~HasAll(current_user, required_permissions)
  THEN PermissionDenial(required_permissions)
  ELSE IF Truthy(allowed_roles)
          /\ ~Contains(allowed_roles.items, current_user.role)
  THEN RoleDenial(allowed_roles)
  ELSE [ran |-> TRUE, resp |-> func(current_user)]

\* rbac_required(allowed_roles, required_permissions)(func)(current_user):
\* the response, and whether func was called.
wrapper(current_user, allowed_roles, required_permissions) ==
  IF Truthy(allowed_roles)
     /\ ~Contains(allowed_roles.items, current_user.role)
  THEN RoleDenial(allowed_roles)
  ELSE IF Truthy(required_permissions)
          /\ ~HasAll(current_user, required_permissions)
  THEN PermissionDenial(required_permissions)
  ELSE [ran |-> TRUE, resp |-> func(current_user)]

\* FastAPI calls the decorated endpoint with the resolved current_user. The
\* route, hence its requirement, does not influence the dependency, so it is
\* chosen here.
CallEndpoint(s, req) ==
  LET current_user == db[slots[s].username]
      out == wrapper(current_user, req.allowed_roles, req.required_permissions)
  IN /\ slots[s].pc = "guard"
     /\ last' = [NoCall EXCEPT !.kind = "request", !.token = slots[s].token,
                               !.principal = current_user.username,
                               !.req = req, !.resp = out.resp,
                               !.ran = out.ran,
                               !.tested = current_user.permissions]
     /\ slots' = [slots EXCEPT ![s] = Idle]
     /\ UNCHANGED <<db, issued>>

Init ==
  /\ db = MOCK_USERS_DB
  /\ slots = [s \in Slots |-> Idle]
  /\ last = NoCall
  /\ issued = {}

Login == \E u \in UsernameInputs, p \in PasswordInputs :
           login_for_access_token(u, p)

Resolve == \E s \in Slots : \E t \in TokenInputs : ResolveDependency(s, t)

Endpoint == \E s \in Slots : \E req \in Requirements : CallEndpoint(s, req)

Next == Login \/ Resolve \/ Endpoint

Spec == Init /\ [][Next]_vars

(***************************************************************************)
(* Vocabulary of the properties.                                           *)
(***************************************************************************)

\* permissionsFor(role): the configured set, or the empty set.
permissionsFor(role) ==
  IF role \in DOMAIN ROLE_PERMISSIONS_MAP
  THEN Range(ROLE_PERMISSIONS_MAP[role])
  ELSE {}

\* The role the identity store was built with for a principal.
RoleOf(principal) == MOCK_USERS_DB[principal].role

RoleClause(role, req) ==
  \/ ~req.allowed_roles.given
  \/ req.allowed_roles.items = <<>>
  \/ role \in Range(req.allowed_roles.items)

PermissionClause(role, req) ==
  \/ ~req.required_permissions.given
  \/ req.required_permissions.items = <<>>
  \/ Range(req.required_permissions.items) \subseteq permissionsFor(role)

\* Required permissions the role does not have.
Missing(role, req) ==
  Range(req.required_permissions.items) \ permissionsFor(role)

\* The last completed call is a protected request that failed to resolve.
Unresolved == last.kind = "request" /\ last.principal = ""

\* The last completed call is a protected request whose guard was evaluated.
Guarded == last.kind = "request" /\ last.principal # ""

InGuard(s) == slots[s].pc = "guard"

IssuedTokens == {p[2] : p \in issued}

\* Tokens authenticate can return: one per record of the identity store.
StoreTokens ==
  {create_access_token(MOCK_USERS_DB[u]) : u \in DOMAIN MOCK_USERS_DB}

\* C1: the guard allows (runs the protected operation) if and only if the
\* role clause and the permission clause both hold for the principal's role,
\* a clause that is absent or empty holding for everyone.
C1_AllowIffBothClauses ==
  Guarded =>
    (last.ran <=> (RoleClause(RoleOf(last.principal), last.req)
                   /\ PermissionClause(RoleOf(last.principal), last.req)))

\* A principal that satisfies the role clause alone has been denied.
C1_Witness ==
  /\ Guarded
  /\ Truthy(last.req.allowed_roles)
  /\ Truthy(last.req.required_permissions)
  /\ RoleClause(RoleOf(last.principal), last.req)
  /\ ~PermissionClause(RoleOf(last.principal), last.req)
  /\ ~last.ran

\* C2 as stated: a token resolves only if a successful authenticate has
\* returned it before.
C2_OnlyIssuedTokensResolve ==
  /\ \A s \in Slots : InGuard(s) => slots[s].token \in IssuedTokens
  /\ Guarded => last.token \in IssuedTokens

\* C2 amended: a token that is not the identifier of a record of the identity
\* store yields InvalidToken (401), and only the tokens authenticate can
\* return resolve; whether authenticate has returned them yet plays no part.
C2_OnlyStoreTokensResolve ==
  /\ \A s \in Slots : InGuard(s) => slots[s].token \in StoreTokens
  /\ Guarded => last.token \in StoreTokens
  /\ (last.kind = "request" /\ last.token \notin StoreTokens) =>
       (Unresolved /\ last.resp = InvalidToken /\ ~last.ran)

\* An unknown token was refused while a token no login has issued resolved.
C2_Witness ==
  /\ Unresolved
  /\ last.token \notin StoreTokens
  /\ \E s \in Slots : InGuard(s) /\ slots[s].token \notin IssuedTokens

\* C3: whenever a token issued to identifier X is resolved, however many
\* other logins and resolutions came in between, the resolution succeeds and
\* yields the principal whose identifier is X.
C3_RoundTrip ==
  \A p \in issued :
    /\ \A s \in Slots :
         (InGuard(s) /\ slots[s].token = p[2]) =>
           db[slots[s].username].username = p[1]
    /\ (last.kind = "request" /\ last.token = p[2]) => last.principal = p[1]

\* An issued token has been resolved after a later login of another user.
C3_Witness ==
  \E p \in issued, q \in issued, s \in Slots :
    /\ p # q
    /\ InGuard(s)
    /\ slots[s].token = p[2]
    /\ last.kind = "login"
    /\ last.token = q[2]

\* C4: a login issues a token only for a stored identifier with exactly the
\* stored credential; every other login, unknown identifier or wrong
\* credential alike, gets one and the same 401 response.
C4_UniformAuthenticationFailure ==
  last.kind = "login" =>
    LET matches == /\ last.username \in DOMAIN MOCK_USERS_DB
                   /\ MOCK_USERS_DB[last.username].password = last.password
    IN /\ (last.resp.status = HTTP_200_OK) <=> matches
       /\ (last.token # "") <=> matches
       /\ matches => <<last.username, last.token>> \in issued
       /\ ~matches => last.resp = LoginFailure

\* A known identifier with the credential of another user was refused.
C4_Witness ==
  /\ last.kind = "login"
  /\ last.username = "guest_user"
  /\ last.password = "admin_password"
  /\ last.resp = LoginFailure

\* C5: the protected operation runs only for a resolved principal the guard
\* allowed; an unresolved token ends in 401 and an unsatisfied requirement in
\* 403, in both cases without the operation running.
C5_NoOperationWithoutAllow ==
  last.kind = "request" =>
    /\ last.ran =>
         /\ Guarded
         /\ last.token \in StoreTokens
         /\ last.resp.status = HTTP_200_OK
         /\ RoleClause(RoleOf(last.principal), last.req)
         /\ PermissionClause(RoleOf(last.principal), last.req)
    /\ Unresolved =>
         /\ last.resp.status = HTTP_401_UNAUTHORIZED
         /\ ~last.ran
    /\ (Guarded /\ ~(RoleClause(RoleOf(last.principal), last.req)
                     /\ PermissionClause(RoleOf(last.principal), last.req))) =>
         /\ last.resp.status = HTTP_403_FORBIDDEN
         /\ ~last.ran

\* A token failed to resolve and the request ended in 401.
C5_Witness ==
  /\ Unresolved
  /\ last.resp.status = HTTP_401_UNAUTHORIZED
  /\ \E s \in Slots : InGuard(s)

LoginSucceeds(u) ==
  /\ last' # last
  /\ last'.kind = "login"
  /\ last'.username = u
  /\ last'.resp.status = HTTP_200_OK

\* This step resolves a token to u.
ResolveSucceeds(u) ==
  \E s \in Slots : ~InGuard(s) /\ slots'[s].pc = "guard"
                   /\ slots'[s].username = u

C7_GuardTestsRolePermissions ==
  /\ \A s \in Slots :
       InGuard(s) =>
         Range(db[slots[s].username].permissions)
           = permissionsFor(db[slots[s].username].role)
  /\ Guarded => Range(last.tested) = permissionsFor(RoleOf(last.principal))

\* The guard has run for a record never logged in, while another request on
\* the same record and one on another record are in flight.
C7_Witness ==
  /\ Guarded
  /\ last.token \notin IssuedTokens
  /\ last.tested # <<>>
  /\ \E s, t \in Slots :
       /\ InGuard(s) /\ slots[s].username = last.principal
       /\ InGuard(t) /\ slots[t].username # last.principal

\* The last completed request was denied on the permission clause.
PermissionDenied ==
  /\ Guarded
  /\ RoleClause(RoleOf(last.principal), last.req)
  /\ ~PermissionClause(RoleOf(last.principal), last.req)

\* The last completed request was denied on the role clause.
RoleDenied == Guarded /\ ~RoleClause(RoleOf(last.principal), last.req)

\* The strings a response carries.
Carried(resp) == Range(resp.values) \cup Range(resp.headers) \cup {resp.text}

\* C8 as stated: a permission denial carries the required permissions and
\* the missing ones, required minus effective.
C8_DenialCarriesMissing ==
  PermissionDenied =>
    /\ last.resp.values
         = PermissionValues(last.req.required_permissions.items)
    /\ \E listed \in {Range(last.resp.values), Range(last.resp.headers)} :
         listed = {Permission[p] :
                     p \in Missing(RoleOf(last.principal), last.req)}

\* C8 amended: a permission denial is a 403 whose detail lists the required
\* permissions, all of them and in the declared order; the missing ones are
\* among those listed but are not told apart.
C8_DenialListsRequired ==
  PermissionDenied =>
    /\ last.resp.status = HTTP_403_FORBIDDEN
    /\ last.resp.text = "Permission denied. Required permissions: "
    /\ last.resp.values
         = PermissionValues(last.req.required_permissions.items)
    /\ last.resp.headers = <<>>
    /\ {Permission[p] : p \in Missing(RoleOf(last.principal), last.req)}
         \subseteq Range(last.resp.values)

\* A principal holding one of two required permissions has been denied.
C8_Witness ==
  /\ PermissionDenied
  /\ Missing(RoleOf(last.principal), last.req) # {}
  /\ Missing(RoleOf(last.principal), last.req)
       # Range(last.req.required_permissions.items)

\* C9 as stated: a role denial carries the allowed roles and the
\* principal's actual role, and the role clause is decided first.
C9_DenialCarriesActualRole ==
  /\ RoleDenied =>
       /\ last.resp.values = RoleValues(last.req.allowed_roles.items)
       /\ Role[RoleOf(last.principal)] \in Carried(last.resp)
  /\ (Guarded /\ last.resp.text = "Permission denied. Required permissions: ")
       => RoleClause(RoleOf(last.principal), last.req)

\* C9 amended: the role clause is decided first; whenever it fails the
\* denial is a 403 listing the allowed roles (not the principal's own role),
\* also when the permission clause fails too, and a permission denial is
\* produced only when the role clause passed or is absent.
C9_RoleClauseFirst ==
  /\ RoleDenied =>
       /\ last.resp.status = HTTP_403_FORBIDDEN
       /\ last.resp.text = "Permission denied. Required roles: "
       /\ last.resp.values = RoleValues(last.req.allowed_roles.items)
       /\ ~last.ran
  /\ (Guarded /\ last.resp.text = "Permission denied. Required permissions: ")
       => RoleClause(RoleOf(last.principal), last.req)

\* A principal failing both clauses has been denied.
C9_Witness ==
  /\ RoleDenied
  /\ Truthy(last.req.required_permissions)
  /\ ~PermissionClause(RoleOf(last.principal), last.req)

\* The decision a role and a requirement determine.
Decision(role, req) ==
  IF ~RoleClause(role, req)
  THEN <<"deny", HTTP_403_FORBIDDEN, "Permission denied. Required roles: ",
         RoleValues(req.allowed_roles.items)>>
  ELSE IF ~PermissionClause(role, req)
  THEN <<"deny", HTTP_403_FORBIDDEN,
         "Permission denied. Required permissions: ",
         PermissionValues(req.required_permissions.items)>>
  ELSE <<"allow", HTTP_200_OK, "", <<>> >>

\* The decision a completed request shows.
Observed(call) ==
  IF call.ran
  THEN <<"allow", call.resp.status, "", <<>> >>
  ELSE <<"deny", call.resp.status, call.resp.text, call.resp.values>>

\* C10: the outcome of the guard is a function of the principal's role and
\* the requirement alone: logins, credentials and the requests that came
\* before or run alongside leave it the same.
C10_DecisionDependsOnRoleOnly ==
  Guarded => Observed(last) = Decision(RoleOf(last.principal), last.req)

\* A request has been allowed on its permissions for a record that has
\* logged in, while another request is in flight.
C10_Witness ==
  /\ Guarded
  /\ last.ran
  /\ Truthy(last.req.required_permissions)
  /\ last.token \in IssuedTokens
  /\ \E s \in Slots : InGuard(s)

====
